---------------------------- MODULE Spec2Model ----------------------------
(***************************************************************************)
(* LoRa-Comm: the serial ingestion loop of payload.py (frame reader,       *)
(* pipeline, exception handlers) and the hazard API of main.py            *)
(* (get_detailed_alerts, get_reticulum_summary, the endpoints).            *)
(*                                                                         *)
(* Text is modelled as a sequence of one-character strings.  Forecast      *)
(* values are integers in the unit of their column (ppm, deg C, %).        *)
(* Emoji of the label texts are written as ASCII tags.                     *)
(***************************************************************************)
EXTENDS Integers, Sequences, FiniteSets, TLC

\* ------------------------------------------------------------------------
\* Bounds of the model
\* ------------------------------------------------------------------------

\* Number of ser.readline() calls explored in one run of payload.py.
MaxReads == 4

\* ------------------------------------------------------------------------
\* Text helpers (Python str operations used by payload.py)
\* ------------------------------------------------------------------------

\* str.count(c)
RECURSIVE Count(_, _)
Count(s, c) ==
    IF s = << >> THEN 0
    ELSE (IF Head(s) = c THEN 1 ELSE 0) + Count(Tail(s), c)

\* str.startswith(c) for a one-character prefix
StartsWith(s, c) == Len(s) > 0 /\ s[1] = c

\* str.replace("'", '"')
NormalizeQuotes(s) == [i \in 1..Len(s) |-> IF s[i] = "'" THEN "\"" ELSE s[i]]

\* ------------------------------------------------------------------------
\* Lines the device can send (after .decode('utf-8').strip())
\* ------------------------------------------------------------------------

\* Length of each input list the API accepts (SensorData.check_length).
WindowLen == 18

RECURSIVE CommaList(_, _)
CommaList(c, n) ==
    IF n = 0 THEN << >>
    ELSE IF n = 1 THEN <<c>>
    ELSE <<c, ",">> \o CommaList(c, n - 1)

\* "key":[c,c,...,c]  with WindowLen values
Member(key, c) ==
    <<"\"">> \o key \o <<"\"", ":", "[">> \o CommaList(c, WindowLen) \o <<"]">>

LineEmpty   == << >>
LineOpen    == <<"{">>
LineClose   == <<"}">>
LineClose2  == <<"}", "}">>
LineHead    == <<"{", "\"", "n", "h", "3", "\"", ":", "[", "1", ",", "2">>
LineTail    == <<"3", "]", "}">>
\* the device's own quoting style, opening a nested object
LineNest    == <<"'", "a", "'", ":", "{">>
LineSingle  == <<"{", "\"", "c", "o", "\"", ":", "[", "2", "]", "}">>
\* a whole reading without its closing brace
LineReading ==
    <<"{">> \o Member(<<"n", "h", "3">>, "1") \o <<",">>
            \o Member(<<"c", "h", "4">>, "2") \o <<",">>
            \o Member(<<"c", "o">>, "3") \o <<",">>
            \o Member(<<"t", "e", "m", "p">>, "4") \o <<",">>
            \o Member(<<"h", "u", "m", "i", "d", "i", "t", "y">>, "5")

Lines == { LineEmpty, LineOpen, LineClose, LineClose2, LineHead, LineTail,
           LineNest, LineSingle, LineReading }

\* ------------------------------------------------------------------------
\* json.loads on the characters the lines above are made of: objects,
\* arrays, strings without escapes, unsigned integers; no white space.
\* A value is [t |-> "num"|"str"|"arr"|"obj", v |-> ...]; an object keeps
\* its members as a sequence of <<key, value>> pairs.
\* ------------------------------------------------------------------------

Digits == <<"0", "1", "2", "3", "4", "5", "6", "7", "8", "9">>

IsDigit(c) == \E d \in 1..10 : Digits[d] = c

DigitVal(c) == (CHOOSE d \in 1..10 : Digits[d] = c) - 1

At(s, i) == IF i >= 1 /\ i <= Len(s) THEN s[i] ELSE "EOF"

Fail == [ok |-> FALSE, pos |-> 0, val |-> [t |-> "none", v |-> 0]]

Ok(p, value) == [ok |-> TRUE, pos |-> p, val |-> value]

\* digits from position i on: <<next position, value>>
RECURSIVE ScanDigits(_, _, _)
ScanDigits(s, i, acc) ==
    IF IsDigit(At(s, i)) THEN ScanDigits(s, i + 1, acc * 10 + DigitVal(s[i]))
    ELSE <<i, acc>>

\* JSON number: "0" or a digit 1-9 followed by digits
ParseNumber(s, i) ==
    IF At(s, i) = "0" THEN Ok(i + 1, [t |-> "num", v |-> 0])
    ELSE LET r == ScanDigits(s, i, 0) IN Ok(r[1], [t |-> "num", v |-> r[2]])

\* position of the closing quote of a string whose text starts at i, or 0
RECURSIVE ScanString(_, _)
ScanString(s, i) ==
    IF i > Len(s) THEN 0
    ELSE IF s[i] = "\"" THEN i
    ELSE ScanString(s, i + 1)

ParseString(s, i) ==
    LET q == ScanString(s, i + 1) IN
    IF At(s, i) # "\"" \/ q = 0 THEN Fail
    ELSE Ok(q + 1, [t |-> "str", v |-> SubSeq(s, i + 1, q - 1)])

RECURSIVE ParseValue(_, _)
RECURSIVE ParseElements(_, _, _)
RECURSIVE ParseMembers(_, _, _)

\* after "[" and at least one element position: value ("," value)* "]"
ParseElements(s, i, acc) ==
    LET e == ParseValue(s, i) IN
    IF ~e.ok THEN Fail
    ELSE IF At(s, e.pos) = "," THEN ParseElements(s, e.pos + 1, Append(acc, e.val))
    ELSE IF At(s, e.pos) = "]" THEN Ok(e.pos + 1, [t |-> "arr", v |-> Append(acc, e.val)])
    ELSE Fail

\* after "{": string ":" value ("," string ":" value)* "}"
ParseMembers(s, i, acc) ==
    LET k == ParseString(s, i) IN
    IF ~k.ok \/ At(s, k.pos) # ":" THEN Fail
    ELSE LET e == ParseValue(s, k.pos + 1) IN
         IF ~e.ok THEN Fail
         ELSE LET more == Append(acc, <<k.val.v, e.val>>) IN
              IF At(s, e.pos) = "," THEN ParseMembers(s, e.pos + 1, more)
              ELSE IF At(s, e.pos) = "}" THEN Ok(e.pos + 1, [t |-> "obj", v |-> more])
              ELSE Fail

ParseValue(s, i) ==
    LET c == At(s, i) IN
    IF c = "{" THEN
        IF At(s, i + 1) = "}" THEN Ok(i + 2, [t |-> "obj", v |-> << >>])
        ELSE ParseMembers(s, i + 1, << >>)
    ELSE IF c = "[" THEN
        IF At(s, i + 1) = "]" THEN Ok(i + 2, [t |-> "arr", v |-> << >>])
        ELSE ParseElements(s, i + 1, << >>)
    ELSE IF c = "\"" THEN ParseString(s, i)
    ELSE IF IsDigit(c) THEN ParseNumber(s, i)
    ELSE Fail

\* json.loads(data): the whole text must be one value ("Extra data" otherwise)
json_loads(s) ==
    LET r == ParseValue(s, 1) IN
    IF r.ok /\ r.pos = Len(s) + 1 THEN r ELSE Fail

EmptyList == [t |-> "arr", v |-> << >>]

\* dict.get(key, []): the last member with that key wins
RECURSIVE DictGet(_, _, _)
DictGet(members, key, default) ==
    IF members = << >> THEN default
    ELSE LET last == members[Len(members)] IN
         IF last[1] = key THEN last[2]
         ELSE DictGet(SubSeq(members, 1, Len(members) - 1), key, default)

\* ------------------------------------------------------------------------
\* main.py: thresholds and label catalog
\* ------------------------------------------------------------------------

NH3_warning == 25
NH3_danger == 50
CH4_warning == 1000
CH4_danger == 50000
CO_warning == 35
CO_danger == 200
Temp_warning == 30
Temp_danger == 35
Humidity_warning_low == 30
Humidity_danger_low == 20
Humidity_warning_high == 70
Humidity_danger_high == 80

LblNH3Danger  == "[siren] NH3 critical-Evacuate immediately!"
LblNH3Warn    == "[warning] NH3 high-Ventilate & monitor!"
LblCH4Danger  == "[siren] CH4 explosive risk-Evacuate!"
LblCH4Warn    == "[warning] CH4 elevated-Increase ventilation!"
LblCODanger   == "[siren] CO life-threatening-Seek fresh air now!"
LblCOWarn     == "[warning] CO rising-Check ventilation!"
LblTempDanger == "[fire] Extreme heat-Cool down & hydrate!"
LblTempWarn   == "[thermometer] Warm-Monitor for heat stress."
LblHumVeryDry == "[droplet] Very dry-Risk of dehydration!"
LblHumDry     == "[droplet] Dry air-Increase humidity."
LblHumVeryWet == "[sweat] Very humid-Mold risk, dehumidify!"
LblHumWet     == "[sweat] Humid-Ventilate to reduce moisture."
LblAllSafe    == "[check] All levels safe."
LblNoHazards  == "[check] No hazards detected."

\* Number of forecast steps (reshape(36, 5)), hourly buckets and steps per bucket.
Steps == 36
Hours == 6
StepsPerHour == 6

\* ------------------------------------------------------------------------
\* main.py: get_detailed_alerts(row), row = <<nh3, ch4, co, temp, hum>>
\* ------------------------------------------------------------------------

\* StatusOrAllSafe without the fallback of line 148
StatusOrNothing(status) == status

\* line 148: status or ["All levels safe."]
StatusOrAllSafe(status) == IF status = << >> THEN <<LblAllSafe>> ELSE status

\* get_detailed_alerts with "if" for "elif" at line 121 and the two low
\* humidity tests in the other order
get_detailed_alerts_all_ifs(row) ==
    LET nh3 == row[1]
        ch4 == row[2]
        co == row[3]
        temp == row[4]
        hum == row[5]
        s1 == (IF nh3 > NH3_danger THEN <<LblNH3Danger>> ELSE << >>)
              \o (IF nh3 > NH3_warning THEN <<LblNH3Warn>> ELSE << >>)
        s2 == IF ch4 > CH4_danger THEN <<LblCH4Danger>>
              ELSE IF ch4 > CH4_warning THEN <<LblCH4Warn>> ELSE << >>
        s3 == IF co > CO_danger THEN <<LblCODanger>>
              ELSE IF co > CO_warning THEN <<LblCOWarn>> ELSE << >>
        s4 == IF temp > Temp_danger THEN <<LblTempDanger>>
              ELSE IF temp > Temp_warning THEN <<LblTempWarn>> ELSE << >>
        s5 == IF hum < Humidity_warning_low THEN <<LblHumDry>>
              ELSE IF hum < Humidity_danger_low THEN <<LblHumVeryDry>>
              ELSE IF hum > Humidity_danger_high THEN <<LblHumVeryWet>>
              ELSE IF hum > Humidity_warning_high THEN <<LblHumWet>> ELSE << >>
        status == s1 \o s2 \o s3 \o s4 \o s5
    IN  IF status = << >> THEN <<LblAllSafe>> ELSE status

get_detailed_alerts(row) ==
    LET nh3 == row[1]
        ch4 == row[2]
        co == row[3]
        temp == row[4]
        hum == row[5]
        s1 == IF nh3 > NH3_danger THEN <<LblNH3Danger>>
              ELSE IF nh3 > NH3_warning THEN <<LblNH3Warn>> ELSE << >>
        s2 == IF ch4 > CH4_danger THEN <<LblCH4Danger>>
              ELSE IF ch4 > CH4_warning THEN <<LblCH4Warn>> ELSE << >>
        s3 == IF co > CO_danger THEN <<LblCODanger>>
              ELSE IF co > CO_warning THEN <<LblCOWarn>> ELSE << >>
        s4 == IF temp > Temp_danger THEN <<LblTempDanger>>
              ELSE IF temp > Temp_warning THEN <<LblTempWarn>> ELSE << >>
        s5 == IF hum < Humidity_danger_low THEN <<LblHumVeryDry>>
              ELSE IF hum < Humidity_warning_low THEN <<LblHumDry>>
              ELSE IF hum > Humidity_danger_high THEN <<LblHumVeryWet>>
              ELSE IF hum > Humidity_warning_high THEN <<LblHumWet>> ELSE << >>
        status == s1 \o s2 \o s3 \o s4 \o s5
    IN  StatusOrAllSafe(status)

\* ------------------------------------------------------------------------
\* main.py: get_reticulum_summary(predictions, current_row)
\* ------------------------------------------------------------------------

\* round(num / den, 2) in hundredths, for num >= 0.  The model only divides
\* by 1 and by StepsPerHour = 6, where 100 * num / den is never half-way
\* between two integers, so the tie rule of round() is never used.
Round2(num, den) == (200 * num + den) \div (2 * den)

RECURSIVE SumCol(_, _, _, _)
SumCol(predictions, j, from, to) ==
    IF from > to THEN 0
    ELSE predictions[from][j] + SumCol(predictions, j, from + 1, to)

\* Python's any(list of str): some element is a non-empty string
PyAny(labels) == \E i \in 1..Len(labels) : labels[i] # ""

\* "if any(get_detailed_alerts(row))" of the status scan
HasAlert(row) == PyAny(get_detailed_alerts(row))

\* list(set(all_alerts))[:3]: a set of str has no defined order, so every
\* order of the distinct labels is a possible list; the first three are kept.
Min(a, b) == IF a < b THEN a ELSE b

KeyAlerts(all_alerts) ==
    LET S == {all_alerts[i] : i \in 1..Len(all_alerts)}
        k == Min(3, Cardinality(S))
    IN  {q \in [1..k -> S] : \A i, j \in 1..k : i # j => q[i] # q[j]}

RECURSIVE AllAlerts(_, _)
AllAlerts(predictions, i) ==
    IF i > Len(predictions) THEN << >>
    ELSE get_detailed_alerts(predictions[i]) \o AllAlerts(predictions, i + 1)

\* BucketStart with a stride one step short: the buckets overlap
BucketStartOverlap(h) == (h - 1) * (StepsPerHour - 1)

\* line 166: start = h * 6, for the h-th bucket counted from 1
BucketStart(h) == (h - 1) * StepsPerHour

HourlyForecast(predictions) ==
    [h \in 1..Hours |->
        LET start == BucketStart(h)
            end == start + StepsPerHour
        IN  [hour |-> h,
             avg_NH3 |-> Round2(SumCol(predictions, 1, start + 1, end), StepsPerHour),
             avg_CH4 |-> Round2(SumCol(predictions, 2, start + 1, end), StepsPerHour),
             avg_CO |-> Round2(SumCol(predictions, 3, start + 1, end), StepsPerHour),
             avg_Temp |-> Round2(SumCol(predictions, 4, start + 1, end), StepsPerHour),
             avg_Humidity |-> Round2(SumCol(predictions, 5, start + 1, end), StepsPerHour)]]

SummaryStatus(predictions) ==
    LET danger_count == Cardinality({i \in 1..Len(predictions) : HasAlert(predictions[i])})
    IN  IF danger_count > 18 THEN "Danger"
        ELSE IF danger_count > 6 THEN "Warning"
        ELSE "Safe"

\* The set of documents the function can return (one per order of the set).
get_reticulum_summary(predictions, current_row) ==
    { [timestamp |-> "now",
       status |-> SummaryStatus(predictions),
       current |-> [NH3 |-> Round2(current_row[1], 1),
                    CH4 |-> Round2(current_row[2], 1),
                    CO |-> Round2(current_row[3], 1),
                    Temp |-> Round2(current_row[4], 1),
                    Humidity |-> Round2(current_row[5], 1)],
       forecast |-> HourlyForecast(predictions),
       alerts |-> IF key_alerts = << >> THEN <<LblNoHazards>> ELSE key_alerts]
      : key_alerts \in KeyAlerts(AllAlerts(predictions, 1)) }

\* ------------------------------------------------------------------------
\* main.py: request validation and the endpoints
\* ------------------------------------------------------------------------

\* pydantic List[float]: a JSON array of numbers (or of numeric strings)
IsFloatLike(x) ==
    \/ x.t = "num"
    \/ x.t = "str" /\ x.v # << >> /\ \A i \in 1..Len(x.v) : IsDigit(x.v[i])

IsFloatList(x) == x.t = "arr" /\ \A i \in 1..Len(x.v) : IsFloatLike(x.v[i])

\* SensorData with its check_length validator: FastAPI answers 422 otherwise
SensorDataValid(data) ==
    \A c \in DOMAIN data : IsFloatList(data[c]) /\ Len(data[c].v) = WindowLen

FloatOf(x) == IF x.t = "num" THEN x.v ELSE ScanDigits(x.v, 1, 0)[2]

\* input_data[-1] of np.column_stack([nh3, ch4, co, temp, humidity])
LastRow(data) ==
    <<FloatOf(data.nh3.v[WindowLen]), FloatOf(data.ch4.v[WindowLen]),
      FloatOf(data.co.v[WindowLen]), FloatOf(data.temp.v[WindowLen]),
      FloatOf(data.humidity.v[WindowLen])>>

\* Clamp without np.maximum
ClampNothing(predictions) == predictions

\* np.maximum(predictions, 0)
Clamp(predictions) ==
    [i \in 1..Len(predictions) |->
        [j \in 1..5 |-> IF predictions[i][j] < 0 THEN 0 ELSE predictions[i][j]]]

\* The scaler and the Keras model are opaque: oracle is what they do on this
\* call, either an exception or the 36 x 5 output of inverse_transform.
OracleRaise == [raises |-> TRUE, out |-> << >>]
OracleOut(p) == [raises |-> FALSE, out |-> p]

\* lines 51-63, 98-105 and 207-214: the local predictions of a handler
Predictions(oracle) == Clamp(oracle.out)

\* The set of responses export_to_reticulum can produce for one request.
export_to_reticulum(data, oracle) ==
    IF ~SensorDataValid(data) THEN {[status_code |-> 422, body |-> [detail |-> "validation"]]}
    ELSE IF oracle.raises THEN {[status_code |-> 200, body |-> [error |-> "exception"]]}
    ELSE {[status_code |-> 200, body |-> d] :
              d \in get_reticulum_summary(Predictions(oracle), LastRow(data))}

\* round(float(x), 3) in thousandths; the model's values are whole numbers
Round3(x) == 1000 * x

\* The set of responses predict_gas_levels can produce for one request.
predict_gas_levels(data, summary, oracle) ==
    IF ~SensorDataValid(data) THEN {[status_code |-> 422, body |-> [detail |-> "validation"]]}
    ELSE IF oracle.raises THEN {[status_code |-> 200, body |-> [error |-> "exception"]]}
    ELSE IF ~summary THEN
        {[status_code |-> 200,
          body |-> [predictions |->
            [idx \in 1..Steps |->
                LET row == Predictions(oracle)[idx] IN
                [timestep |-> idx,
                 prediction |-> [NH3 |-> Round3(row[1]), CH4 |-> Round3(row[2]),
                                 CO |-> Round3(row[3]), Temp |-> Round3(row[4]),
                                 Humidity |-> Round3(row[5])],
                 alerts |-> get_detailed_alerts(row)]]]]}
    ELSE {[status_code |-> 200, body |-> d] :
              d \in get_reticulum_summary(Predictions(oracle), LastRow(data))}

\* line 218: the siren emoji is in the text of the label
HasSiren(a) == a \in {LblNH3Danger, LblCH4Danger, LblCODanger}

StatusCritical == "[siren] Critical Alerts"
StatusAllSafe == "[check] All safe"

\* The set of responses get_alert_summary can produce for one request.
get_alert_summary(data, oracle) ==
    IF ~SensorDataValid(data) THEN {[status_code |-> 422, body |-> [detail |-> "validation"]]}
    ELSE IF oracle.raises THEN {[status_code |-> 200, body |-> [error |-> "exception"]]}
    ELSE {LET critical_alerts == SelectSeq(summary.alerts, HasSiren) IN
          [status_code |-> 200,
           body |-> [status |-> IF critical_alerts # << >> THEN StatusCritical
                                ELSE StatusAllSafe,
                     alerts |-> IF critical_alerts # << >> THEN critical_alerts
                                ELSE <<"Air quality within safe thresholds.">>]] :
              summary \in get_reticulum_summary(Predictions(oracle), LastRow(data))}

\* ------------------------------------------------------------------------
\* payload.py: state
\* ------------------------------------------------------------------------

VARIABLES
    pc,            \* position of the script
    ser,           \* "unbound" | "open" | "closed": the name ser and ser.is_open
    reads,         \* ser.readline() calls made so far
    data,          \* frame buffer
    json_started,
    brace_count,
    all_readings,  \* the in-memory log
    processed,     \* the reading of the current cycle
    summary_resp,  \* response of /export_reticulum
    summary_data,  \* summary_resp.json()
    message_text,  \* the alert message, as the values the template embeds
    csv_rows,      \* rows of the newest exports/sensor_readings_*.csv
    exc,           \* the exception that left the read loop, "none" if none
    exit_code,     \* -1 while the process runs
    received,      \* history: non-empty lines read since the frame reader was reset
    stages,        \* history: stages done by the newest cycle
    predict_status,\* history: status of the newest cycle's /predict response, 0 if none
    outcome,       \* history: how the newest cycle ended, "running" while it runs
    emitted,       \* history: the frames emitted so far, each with the lines that made it
    api_data, api_oracle, api_resp, api_pc,  \* one request to the API of main.py
    api_route,       \* the endpoint that served it
    api_predictions  \* the handler's local predictions, None if it has none

pvars == <<pc, ser, reads, data, json_started, brace_count, all_readings, processed,
           summary_resp, summary_data, message_text, csv_rows, exc, exit_code,
           received, stages, predict_status, outcome, emitted>>
avars == <<api_data, api_oracle, api_resp, api_pc, api_route, api_predictions>>
vars == <<pvars, avars>>

None == [none |-> TRUE]

\* The name of a column as the key text of the frame
KeyText(c) ==
    CASE c = "nh3" -> <<"n", "h", "3">>
      [] c = "ch4" -> <<"c", "h", "4">>
      [] c = "co" -> <<"c", "o">>
      [] c = "temp" -> <<"t", "e", "m", "p">>
      [] c = "humidity" -> <<"h", "u", "m", "i", "d", "i", "t", "y">>

\* lines 104-116: the five json_data.get(..., [])
Extract(json_data) ==
    [nh3 |-> DictGet(json_data.v, KeyText("nh3"), EmptyList),
     ch4 |-> DictGet(json_data.v, KeyText("ch4"), EmptyList),
     co |-> DictGet(json_data.v, KeyText("co"), EmptyList),
     temp |-> DictGet(json_data.v, KeyText("temp"), EmptyList),
     humidity |-> DictGet(json_data.v, KeyText("humidity"), EmptyList)]

\* BraceDelta with line 92 left out
BraceDeltaClosesOnly(line) == 0 - Count(line, "}")

\* lines 92-93: the change of brace_count made by an appended line
BraceDelta(line) == Count(line, "{") - Count(line, "}")

\* AppendLine joining the lines with a comma
AppendLineComma(buf, line) == buf \o <<",">> \o line

\* line 91: data += line
AppendLine(buf, line) == buf \o line

\* CloseIfOpen without the ser.close() of line 174
CloseNever(s) == s

\* lines 173-175: ser.close() if the name is bound and the port is open
CloseIfOpen(s) == IF s = "open" THEN "closed" ELSE s

\* An exception no handler of the script names ends the process with a
\* traceback (status 1); after a handled one the script runs off its end (0).
ExitCodeAfter(e) == IF e \in {"none", "SerialException", "KeyboardInterrupt"} THEN 0 ELSE 1

\* The model outputs explored inside the read loop.
SafeRow == <<10, 500, 10, 22, 50>>
HotRow == <<60, 500, 10, 22, 50>>
CycleOracles ==
    { OracleRaise,
      OracleOut([i \in 1..Steps |-> SafeRow]),
      OracleOut([i \in 1..Steps |-> IF i <= 7 THEN HotRow ELSE SafeRow]) }

\* What the service at FASTAPI_URL answers when it is reached: main.py's
\* answer, or 500 when the server fails outside the handler's try (a NaN in
\* the model output is not JSON compliant).
PredictStatuses(d) == IF SensorDataValid(d) THEN {200, 500} ELSE {422}

ServerError == [status_code |-> 500, body |-> [raw |-> "Internal Server Error"]]
\* A 200 answer whose body is not JSON (something else listens on the port).
ForeignBody == [status_code |-> 200, body |-> [raw |-> "<html>"]]

ExportResponses(d) ==
    (UNION {export_to_reticulum(d, o) : o \in CycleOracles})
        \cup (IF SensorDataValid(d) THEN {ServerError} ELSE {})
        \cup {ForeignBody}

IsJson(body) == "raw" \notin DOMAIN body

\* ------------------------------------------------------------------------
\* payload.py: the script, one action per step
\* ------------------------------------------------------------------------

InCycle == pc \in {"parse", "csv", "predict", "export", "summary_json",
                   "summary_file", "message", "alert"}

InTry == pc \in {"open", "read"} \/ InCycle

\* An exception leaves the outer try: its handler (if any) prints, then finally.
Raise(e) ==
    /\ pc' = "finally"
    /\ exc' = e
    /\ outcome' = IF InCycle THEN "raised" ELSE outcome
    /\ UNCHANGED <<ser, reads, data, json_started, brace_count, all_readings, processed,
                   summary_resp, summary_data, message_text, csv_rows, exit_code,
                   received, stages, predict_status, emitted, avars>>

\* NextFrame without the assignments of lines 75-77
NextFrameKeepsState(how) ==
    /\ pc' = "read"
    /\ UNCHANGED <<data, json_started, brace_count>>
    /\ received' = << >>
    /\ processed' = None
    /\ summary_resp' = None
    /\ summary_data' = None
    /\ message_text' = None
    /\ outcome' = how

\* continue / end of the loop body: lines 75-77 start the next frame.  The
\* names processed, summary_resp, summary_data and message_text keep stale
\* values that the next cycle assigns before it reads them; they are cleared.
NextFrame(how) ==
    /\ pc' = "read"
    /\ data' = << >>
    /\ json_started' = FALSE
    /\ brace_count' = 0
    /\ received' = << >>
    /\ processed' = None
    /\ summary_resp' = None
    /\ summary_data' = None
    /\ message_text' = None
    /\ outcome' = how

\* line 68
OpenSerial ==
    /\ pc = "open"
    /\ \/ /\ ser' = "open"
          /\ pc' = "read"
          /\ UNCHANGED <<reads, data, json_started, brace_count, all_readings, processed,
                         summary_resp, summary_data, message_text, csv_rows, exc,
                         exit_code, received, stages, predict_status, outcome, emitted, avars>>
       \/ Raise("SerialException")

\* StartCount that counts the braces of the start line
StartCountBalance(line) == Count(line, "{") - Count(line, "}")

\* line 88: brace_count = 1
StartCount(line) == 1

\* FrameComplete that also takes a counter below 0
FrameCompleteAtMost(count) == count <= 0

\* line 94: if brace_count == 0: break
FrameComplete(count) == count = 0

\* lines 81-95: one pass of the inner loop
ReadLine ==
    /\ pc = "read"
    /\ reads < MaxReads
    /\ \E line \in Lines :
        /\ reads' = reads + 1
        /\ IF line = << >> THEN
               UNCHANGED <<pc, data, json_started, brace_count, received, stages,
                           predict_status, outcome, emitted>>
           ELSE IF StartsWith(line, "{") THEN
               /\ json_started' = TRUE
               /\ brace_count' = StartCount(line)
               /\ data' = line
               /\ received' = Append(received, line)
               /\ UNCHANGED <<pc, stages, predict_status, outcome, emitted>>
           ELSE IF json_started THEN
               /\ data' = AppendLine(data, line)
               /\ brace_count' = brace_count + BraceDelta(line)
               /\ received' = Append(received, line)
               /\ UNCHANGED json_started
               /\ IF FrameComplete(brace_count')
                  THEN /\ pc' = "parse"
                       /\ stages' = << >>
                       /\ predict_status' = 0
                       /\ outcome' = "running"
                       /\ emitted' = Append(emitted, [lines |-> received', frame |-> data'])
                  ELSE UNCHANGED <<pc, stages, predict_status, outcome, emitted>>
           ELSE
               /\ received' = Append(received, line)
               /\ UNCHANGED <<pc, data, json_started, brace_count, stages,
                              predict_status, outcome, emitted>>
    /\ UNCHANGED <<ser, all_readings, processed, summary_resp, summary_data,
                   message_text, csv_rows, exc, exit_code, avars>>

\* line 81: the device is lost (SerialException), or the bytes are not UTF-8
ReadFails ==
    /\ pc = "read"
    /\ \E e \in {"SerialException", "UnicodeDecodeError"} : Raise(e)

\* LogAppend that keeps only the newest reading
LogAppendReplace(log, reading) == <<reading>>

\* line 118: all_readings.append(processed)
LogAppend(log, reading) == Append(log, reading)

\* lines 97-118, and the handler of lines 163-166
ParseFrame ==
    /\ pc = "parse"
    /\ LET text == NormalizeQuotes(data)
           r == json_loads(text)
       IN  IF r.ok THEN
               /\ data' = text
               /\ processed' = Extract(r.val)
               /\ all_readings' = LogAppend(all_readings, Extract(r.val))
               /\ stages' = Append(stages, "append")
               /\ pc' = "csv"
               /\ UNCHANGED <<json_started, brace_count, summary_resp, summary_data,
                              message_text, received, outcome>>
           ELSE
               /\ NextFrame("decode_error")
               /\ UNCHANGED <<all_readings, stages>>
    /\ UNCHANGED <<ser, reads, csv_rows, exc, exit_code, predict_status, emitted, avars>>

\* lines 119-125
SaveCsv ==
    /\ pc = "csv"
    /\ \/ /\ csv_rows' = all_readings
          /\ stages' = Append(stages, "csv")
          /\ pc' = "predict"
          /\ UNCHANGED <<ser, reads, data, json_started, brace_count, all_readings,
                         processed, summary_resp, summary_data, message_text, exc,
                         exit_code, received, predict_status, outcome, emitted, avars>>
       \/ Raise("OSError")

\* AfterPredict with a continue in the else branch of line 132
AfterPredictAbort(status_code) == IF status_code = 200 THEN "export" ELSE "continue"

\* lines 130-133: both branches fall through to Step 2
AfterPredict(status_code) == "export"

\* lines 138-140
AfterExport(status_code) == IF status_code # 200 THEN "continue" ELSE "summary_json"

\* lines 128-133
PostPredict ==
    /\ pc = "predict"
    /\ \/ \E st \in PredictStatuses(processed) :
            /\ predict_status' = st
            /\ stages' = Append(stages, "predict")
            /\ IF AfterPredict(st) = "continue"
               THEN NextFrame("predict_failed")
               ELSE /\ pc' = AfterPredict(st)
                    /\ UNCHANGED <<data, json_started, brace_count, processed, summary_resp,
                                   summary_data, message_text, received, outcome>>
            /\ UNCHANGED <<ser, reads, all_readings, csv_rows, exc, exit_code, emitted, avars>>
       \/ \E e \in {"ConnectionError", "Timeout"} : Raise(e)

\* lines 136-140
PostExport ==
    /\ pc = "export"
    /\ \/ \E resp \in ExportResponses(processed) :
            /\ stages' = Append(stages, "export")
            /\ IF AfterExport(resp.status_code) = "continue"
               THEN NextFrame("export_failed")
               ELSE /\ pc' = AfterExport(resp.status_code)
                    /\ summary_resp' = resp
                    /\ UNCHANGED <<data, json_started, brace_count, processed,
                                   summary_data, message_text, received, outcome>>
            /\ UNCHANGED <<ser, reads, all_readings, csv_rows, exc, exit_code,
                           predict_status, emitted, avars>>
       \/ \E e \in {"ConnectionError", "Timeout"} : Raise(e)

\* line 142: summary_resp.json().  Its error for a body that is not JSON is a
\* json.JSONDecodeError (caught at line 163) unless requests decodes with
\* simplejson, whose error the handler does not name.
ParseSummary ==
    /\ pc = "summary_json"
    /\ \/ /\ IsJson(summary_resp.body)
          /\ summary_data' = summary_resp.body
          /\ pc' = "summary_file"
          /\ UNCHANGED <<ser, reads, data, json_started, brace_count, all_readings,
                         processed, summary_resp, message_text, csv_rows, exc, exit_code,
                         received, stages, predict_status, outcome, emitted, avars>>
       \/ /\ ~IsJson(summary_resp.body)
          /\ NextFrame("summary_decode_error")
          /\ UNCHANGED <<ser, reads, all_readings, csv_rows, exc, exit_code, stages,
                         predict_status, emitted, avars>>
       \/ /\ ~IsJson(summary_resp.body)
          /\ Raise("simplejson.JSONDecodeError")

\* lines 143-146
SaveSummary ==
    /\ pc = "summary_file"
    /\ \/ /\ stages' = Append(stages, "summary_file")
          /\ pc' = "message"
          /\ UNCHANGED <<ser, reads, data, json_started, brace_count, all_readings,
                         processed, summary_resp, summary_data, message_text, csv_rows,
                         exc, exit_code, received, predict_status, outcome, emitted, avars>>
       \/ Raise("OSError")

\* dict.get(key, default) on a document
DocGet(doc, key, default) == IF key \in DOMAIN doc THEN doc[key] ELSE default

\* lines 149-158: summary_data['current'] raises KeyError when the key is missing
BuildMessage ==
    /\ pc = "message"
    /\ IF "current" \in DOMAIN summary_data THEN
           /\ message_text' = [status |-> DocGet(summary_data, "status", "Unknown"),
                               current |-> summary_data.current,
                               alerts |-> DocGet(summary_data, "alerts", << >>)]
           /\ pc' = "alert"
           /\ UNCHANGED <<ser, reads, data, json_started, brace_count, all_readings,
                          processed, summary_resp, summary_data, csv_rows, exc, exit_code,
                          received, stages, predict_status, outcome, emitted, avars>>
       ELSE Raise("KeyError")

\* What requests.post to MESHCHAT_API does, as send_meshchat_alert sees it.
GatewayResults == {"200", "non200", "ConnectionError", "Exception"}

\* SendAlert posting again until the gateway answers 200
SendAlertRetry ==
    /\ pc = "alert"
    /\ \E r \in GatewayResults :
        /\ stages' = Append(stages, "gateway")
        /\ IF r = "200"
           THEN NextFrame("dispatched")
           ELSE UNCHANGED <<pc, data, json_started, brace_count, received, processed,
                           summary_resp, summary_data, message_text, outcome>>
    /\ UNCHANGED <<ser, reads, all_readings, csv_rows, exc, exit_code, predict_status,
                   emitted, avars>>

\* line 161 and send_meshchat_alert (lines 25-57): every result is only printed
SendAlert ==
    /\ pc = "alert"
    /\ \E r \in GatewayResults :
        /\ stages' = Append(stages, "gateway")
        /\ NextFrame(IF r = "200" THEN "dispatched" ELSE "dispatch_failed")
    /\ UNCHANGED <<ser, reads, all_readings, csv_rows, exc, exit_code, predict_status,
                   emitted, avars>>

\* Ctrl-C while the script is inside the outer try (lines 170-171)
Interrupt ==
    /\ InTry
    /\ Raise("KeyboardInterrupt")

\* lines 172-175, then the process ends
Finally ==
    /\ pc = "finally"
    /\ ser' = CloseIfOpen(ser)
    /\ exit_code' = ExitCodeAfter(exc)
    /\ pc' = "done"
    /\ UNCHANGED <<reads, data, json_started, brace_count, all_readings, processed,
                   summary_resp, summary_data, message_text, csv_rows, exc, received,
                   stages, predict_status, outcome, emitted, avars>>

PayloadInit ==
    /\ pc = "open"
    /\ ser = "unbound"
    /\ reads = 0
    /\ data = << >>
    /\ json_started = FALSE
    /\ brace_count = 0
    /\ all_readings = << >>
    /\ processed = None
    /\ summary_resp = None
    /\ summary_data = None
    /\ message_text = None
    /\ csv_rows = << >>
    /\ exc = "none"
    /\ exit_code = -1
    /\ received = << >>
    /\ stages = << >>
    /\ predict_status = 0
    /\ outcome = "none"
    /\ emitted = << >>

Init ==
    /\ PayloadInit
    /\ api_data = None
    /\ api_oracle = None
    /\ api_resp = None
    /\ api_pc = "idle"
    /\ api_route = "none"
    /\ api_predictions = None

Next ==
    \/ OpenSerial
    \/ ReadLine
    \/ ReadFails
    \/ ParseFrame
    \/ SaveCsv
    \/ PostPredict
    \/ PostExport
    \/ ParseSummary
    \/ SaveSummary
    \/ BuildMessage
    \/ SendAlert
    \/ Interrupt
    \/ Finally

\* payload.py run against the service of main.py
Spec == Init /\ [][Next]_vars

\* ------------------------------------------------------------------------
\* main.py: one request to one of the endpoints
\* ------------------------------------------------------------------------

\* Forecast rows (model outputs before the clamp) around the thresholds
EdgeRow == <<25, 1000, 35, 30, 30>>
WarnRow == <<26, 1001, 10, 22, 50>>
DangerRow == <<51, 500, 201, 36, 50>>
HumidRow == <<10, 500, 10, 22, 81>>
DampRow == <<10, 500, 10, 22, 71>>
NegativeRow == <<-3, 500, -1, 22, -4>>
MixedRow == <<10, 50001, 36, 31, 25>>
ApiRows == {SafeRow, EdgeRow, WarnRow, DangerRow, HumidRow, DampRow, NegativeRow, HotRow,
            MixedRow}

\* n steps of row a followed by Steps - n steps of row b
Segments(n, a, b) == [i \in 1..Steps |-> IF i <= n THEN a ELSE b]

\* where a forecast changes rows: nowhere, inside the first bucket, one step
\* into the second, one step past half, before the last step
SplitPoints == {0, 3, 7, 19, 35}

ApiOracles ==
    {OracleRaise} \cup {OracleOut(Segments(n, a, b)) : n \in SplitPoints, a \in ApiRows, b \in ApiRows}

FullReading == Extract(json_loads(LineReading \o LineClose).val)
ShortReading == Extract(json_loads(LineHead \o LineTail).val)

ApiInit ==
    /\ PayloadInit
    /\ api_data \in {FullReading, ShortReading}
    /\ api_oracle \in ApiOracles
    /\ api_resp = None
    /\ api_pc = "request"
    /\ api_route = "none"
    /\ api_predictions = None

\* What a handler leaves in its local predictions
HandlerPredictions ==
    IF SensorDataValid(api_data) /\ ~api_oracle.raises THEN Predictions(api_oracle) ELSE None

Served(route) ==
    /\ api_pc' = "responded"
    /\ api_route' = route
    /\ api_predictions' = HandlerPredictions
    /\ UNCHANGED <<api_data, api_oracle, pvars>>

\* lines 47-91
PredictGasLevels ==
    /\ api_pc = "request"
    /\ \E summary \in BOOLEAN : api_resp' \in predict_gas_levels(api_data, summary, api_oracle)
    /\ Served("/predict")

\* lines 94-113
ExportReticulum ==
    /\ api_pc = "request"
    /\ api_resp' \in export_to_reticulum(api_data, api_oracle)
    /\ Served("/export_reticulum")

\* lines 204-227
AlertSummary ==
    /\ api_pc = "request"
    /\ api_resp' \in get_alert_summary(api_data, api_oracle)
    /\ Served("/alert")

ApiNext == PredictGasLevels \/ ExportReticulum \/ AlertSummary

SpecApi == ApiInit /\ [][ApiNext]_vars

\* ------------------------------------------------------------------------
\* Properties
\* ------------------------------------------------------------------------

Exited == pc \in {"finally", "done"}

\* C1: a failure of an oracle or summary call (connection error, timeout,
\* malformed response body) ends only the current cycle; it never makes the
\* process leave the read loop.
C1_OracleFailuresKeepLoop ==
    ~(Exited /\ exc \in {"ConnectionError", "Timeout", "simplejson.JSONDecodeError"})

\* Number of steps that carry a label other than the all-clear marker
AlertSteps(predictions) ==
    Cardinality({i \in 1..Len(predictions) :
        \E k \in 1..Len(get_detailed_alerts(predictions[i])) :
            get_detailed_alerts(predictions[i])[k] # LblAllSafe})

IsSummary(resp) == resp.status_code = 200 /\ "forecast" \in DOMAIN resp.body

\* C2: the summary status of a 36-step forecast is Danger when more than 18
\* steps carry a label other than the all-clear marker, Warning when 7 to 18
\* do, and Safe when 6 or fewer do.
C2_StatusByAlertSteps ==
    (api_pc = "responded" /\ IsSummary(api_resp)) =>
        LET N == AlertSteps(Clamp(api_oracle.out)) IN
        api_resp.body.status =
            (IF N > 18 THEN "Danger" ELSE IF N >= 7 THEN "Warning" ELSE "Safe")

\* The labels other than the all-clear marker over all steps
HazardLabels(predictions) ==
    {l \in {AllAlerts(predictions, 1)[i] : i \in 1..Len(AllAlerts(predictions, 1))} :
        l # LblAllSafe}

\* C3: the summary's alert list is duplicate-free, holds only labels other
\* than the all-clear marker that some step carries, and has min(3, number of
\* such labels) entries; when no step crosses a threshold it is exactly the
\* single "no hazards detected" marker.
C3_AlertListIsHazardUnion ==
    (api_pc = "responded" /\ IsSummary(api_resp)) =>
        LET U == HazardLabels(Clamp(api_oracle.out))
            a == api_resp.body.alerts
        IN  IF U = {} THEN a = <<LblNoHazards>>
            ELSE /\ Len(a) = Min(3, Cardinality(U))
                 /\ \A i \in 1..Len(a) : a[i] \in U
                 /\ \A i, j \in 1..Len(a) : i # j => a[i] # a[j]

\* concatenation of a sequence of texts
RECURSIVE Concat(_)
Concat(ls) == IF ls = << >> THEN << >> ELSE Head(ls) \o Concat(Tail(ls))

\* Index of the newest received line that starts with "{", 0 if there is none
StartIdx(rcv) ==
    IF \E k \in 1..Len(rcv) : StartsWith(rcv[k], "{")
    THEN CHOOSE k \in 1..Len(rcv) :
            /\ StartsWith(rcv[k], "{")
            /\ \A m \in (k + 1)..Len(rcv) : ~StartsWith(rcv[m], "{")
    ELSE 0

\* 1 at the start line k, plus the "{" and minus the "}" of the lines k+1..m
RECURSIVE CounterAt(_, _, _)
CounterAt(rcv, k, m) ==
    IF m <= k THEN 1
    ELSE CounterAt(rcv, k, m - 1) + Count(rcv[m], "{") - Count(rcv[m], "}")

\* C4: no line received before the start line (the newest line starting with
\* "{") is in the buffer; from the start line on the counter is 1 plus the
\* "{" minus the "}" of every appended line; the frame is emitted exactly at
\* the first appended line that brings the counter to 0, and the emitted
\* buffer is the start line followed by the lines appended since.
C4_FrameReader ==
    LET k == StartIdx(received)
        n == Len(received)
    IN  /\ (pc = "read" /\ k = 0) => (~json_started /\ data = << >> /\ brace_count = 0)
        /\ (pc = "read" /\ k > 0) =>
              /\ json_started
              /\ data = Concat(SubSeq(received, k, n))
              /\ brace_count = CounterAt(received, k, n)
              /\ \A m \in (k + 1)..n : CounterAt(received, k, m) # 0
        /\ pc = "parse" =>
              /\ k > 0 /\ n > k
              /\ data = Concat(SubSeq(received, k, n))
              /\ brace_count = 0
              /\ CounterAt(received, k, n) = 0
              /\ \A m \in (k + 1)..(n - 1) : CounterAt(received, k, m) # 0

\* A frame of three lines behind a line of noise, with a nested "{"
C4_Witness ==
    /\ pc = "parse"
    /\ Len(received) = 4
    /\ ~StartsWith(received[1], "{")
    /\ Count(received[3], "{") > 0

ClaimedFrame ==
    <<"{", "\"", "n", "h", "3", "\"", ":", "[", "1", ",", "2", ",", "3", "]", "}">>
JoinedFrame ==
    <<"{", "\"", "n", "h", "3", "\"", ":", "[", "1", ",", "2", "3", "]", "}">>

\* C5 as stated: the lines {"nh3":[1,2 and 3]} give, after the second line,
\* the frame {"nh3":[1,2,3]}.
C5_FrameAsClaimed ==
    (pc = "parse" /\ received = <<LineHead, LineTail>>) => data = ClaimedFrame

\* C5 amended: after the first of the two lines nothing is emitted; after the
\* second one frame is emitted, and it is the two lines joined with nothing
\* between them, {"nh3":[1,23]}.
C5_FrameIsJoinedLines ==
    /\ received = <<LineHead>> => ~InCycle
    /\ received = <<LineHead, LineTail>> => pc # "read"
    /\ (pc = "parse" /\ received = <<LineHead, LineTail>>) => data = JoinedFrame

C5_Witness == pc = "parse" /\ received = <<LineHead, LineTail>> /\ data = JoinedFrame

\* C6: once the serial port was opened, the process never ends with the port
\* still open, whatever made it leave the read loop.
C6_PortClosedAtExit == pc = "done" => ser # "open"

\* The process ended on an exception no handler names, raised inside a cycle
C6_Witness == pc = "done" /\ ser = "closed" /\ outcome = "raised" /\ exit_code = 1

C8_WriteFailureNotFatal == ~(Exited /\ exc = "OSError")

\* C9: a 200 answer of the summary endpoint that carries an error document
\* is handled as a recoverable outcome: the process does not end on it.
C9_ErrorDocumentRecoverable ==
    ~(Exited /\ exc = "KeyError" /\ "error" \in DOMAIN summary_data)

CycleOrder == <<"append", "csv", "predict", "export", "summary_file", "gateway">>

IsPrefix(s, t) == Len(s) <= Len(t) /\ SubSeq(t, 1, Len(s)) = s

\* C10: the stages of a cycle happen in the order append, CSV export,
\* /predict, /export_reticulum, summary file, gateway, each at most once; the
\* gateway is called only after the cycle's reading was appended and a 200
\* summary answer was received; no line is read while a cycle is running.
C10_StageOrder ==
    /\ [](IsPrefix(stages, CycleOrder))
    /\ [][(Len(stages') > Len(stages) /\ stages'[Len(stages')] = "gateway") =>
            /\ pc = "alert"
            /\ summary_resp.status_code = 200
            /\ Len(all_readings) > 0
            /\ all_readings[Len(all_readings)] = processed]_vars
    /\ [][reads' # reads => (~InCycle /\ (InCycle' => stages' = << >>))]_vars

\* A second cycle ran all its stages
C10_Witness ==
    /\ outcome = "dispatched"
    /\ stages = CycleOrder
    /\ Len(all_readings) = 2
    /\ Len(csv_rows) = 2

\* C11: the reading log only grows, by one entry at its end, and only when a
\* frame decodes: the step that decodes a frame appends the frame's five
\* sequences (whatever keys or lengths it has) before any stage of the cycle
\* ran, a frame that fails to decode appends nothing, no other step touches
\* the log, and every export written is the whole log at that time.
C11_AppendOnlyLog ==
    /\ [][/\ IsPrefix(all_readings, all_readings')
          /\ Len(all_readings') <= Len(all_readings) + 1
          /\ Len(all_readings') > Len(all_readings) =>
                /\ pc = "parse"
                /\ stages = << >>
                /\ json_loads(NormalizeQuotes(data)).ok
                /\ all_readings'[Len(all_readings')] =
                       Extract(json_loads(NormalizeQuotes(data)).val)
          /\ (pc = "parse" /\ pc' \in {"csv", "read"}) =>
                (Len(all_readings') > Len(all_readings)
                    <=> json_loads(NormalizeQuotes(data)).ok)]_vars
    /\ [][csv_rows' # csv_rows => csv_rows' = all_readings]_vars
    /\ [](IsPrefix(csv_rows, all_readings))

\* A cycle whose export call failed left its reading in the log, a frame with
\* no known key was appended after it, and the export holds both in order
C11_Witness ==
    /\ Len(all_readings) = 2
    /\ all_readings[1] = ShortReading
    /\ all_readings[2] = [nh3 |-> EmptyList, ch4 |-> EmptyList, co |-> EmptyList,
                          temp |-> EmptyList, humidity |-> EmptyList]
    /\ csv_rows = all_readings
    /\ received = <<LineOpen, LineClose>>

\* a full (per-step) answer of /predict
IsStepList(resp) == resp.status_code = 200 /\ "predictions" \in DOMAIN resp.body

\* no value of the step (in thousandths) crosses its warning threshold
Calm(v) ==
    /\ v.NH3 <= 1000 * NH3_warning
    /\ v.CH4 <= 1000 * CH4_warning
    /\ v.CO <= 1000 * CO_warning
    /\ v.Temp <= 1000 * Temp_warning
    /\ v.Humidity >= 1000 * Humidity_warning_low
    /\ v.Humidity <= 1000 * Humidity_warning_high

\* C12: the label list of every forecast step is non-empty, and it is exactly
\* the single all-clear marker when no value of the step crosses its warning
\* threshold.
C12_ClassificationNeverEmpty ==
    (api_pc = "responded" /\ api_route = "/predict" /\ IsStepList(api_resp)) =>
        \A i \in 1..Steps :
            LET e == api_resp.body.predictions[i] IN
            /\ Len(e.alerts) >= 1
            /\ Calm(e.prediction) => e.alerts = <<LblAllSafe>>

\* A forecast whose first step sits exactly on the warning thresholds (all
\* clear) and whose last step crosses some
C12_Witness ==
    /\ api_pc = "responded" /\ api_route = "/predict" /\ IsStepList(api_resp)
    /\ api_resp.body.predictions[1].prediction.NH3 = 1000 * NH3_warning
    /\ api_resp.body.predictions[1].prediction.Humidity = 1000 * Humidity_warning_low
    /\ api_resp.body.predictions[1].alerts = <<LblAllSafe>>
    /\ ~Calm(api_resp.body.predictions[Steps].prediction)
    /\ api_resp.body.predictions[Steps].alerts # <<LblAllSafe>>

\* how many entries of a label list are among the given labels
CountIn(alerts, labels) == Cardinality({k \in 1..Len(alerts) : alerts[k] \in labels})

\* One-sided dimension: at most one of its labels, the danger label alone
\* above the danger threshold
OneSided(alerts, value, danger, dangerLbl, warnLbl) ==
    /\ CountIn(alerts, {dangerLbl, warnLbl}) <= 1
    /\ value > 1000 * danger =>
          (CountIn(alerts, {dangerLbl}) = 1 /\ CountIn(alerts, {warnLbl}) = 0)

\* The humidity label the priority order very dry, dry, very humid, humid picks
HumidityFirstMatch(hum) ==
    IF hum < 1000 * Humidity_danger_low THEN {LblHumVeryDry}
    ELSE IF hum < 1000 * Humidity_warning_low THEN {LblHumDry}
    ELSE IF hum > 1000 * Humidity_danger_high THEN {LblHumVeryWet}
    ELSE IF hum > 1000 * Humidity_warning_high THEN {LblHumWet}
    ELSE {}

\* C13: in the label list of every forecast step each dimension has at most
\* one label; a value above its danger threshold has the danger label and not
\* the warning label; the humidity label is the first match in the order
\* danger-low, warning-low, danger-high, warning-high and no other.
C13_OneLabelPerDimension ==
    (api_pc = "responded" /\ api_route = "/predict" /\ IsStepList(api_resp)) =>
        \A i \in 1..Steps :
            LET a == api_resp.body.predictions[i].alerts
                v == api_resp.body.predictions[i].prediction
                HumLabels == {LblHumVeryDry, LblHumDry, LblHumVeryWet, LblHumWet}
            IN  /\ OneSided(a, v.NH3, NH3_danger, LblNH3Danger, LblNH3Warn)
                /\ OneSided(a, v.CH4, CH4_danger, LblCH4Danger, LblCH4Warn)
                /\ OneSided(a, v.CO, CO_danger, LblCODanger, LblCOWarn)
                /\ OneSided(a, v.Temp, Temp_danger, LblTempDanger, LblTempWarn)
                /\ CountIn(a, HumLabels) <= 1
                /\ {a[k] : k \in 1..Len(a)} \cap HumLabels = HumidityFirstMatch(v.Humidity)

\* A forecast with NH3, CO and temperature above their danger thresholds in
\* its first step and a humidity below the danger-low threshold in its last
C13_Witness ==
    /\ api_pc = "responded" /\ api_route = "/predict" /\ IsStepList(api_resp)
    /\ api_resp.body.predictions[1].prediction.NH3 > 1000 * NH3_danger
    /\ api_resp.body.predictions[1].alerts = <<LblNH3Danger, LblCODanger, LblTempDanger>>
    /\ api_resp.body.predictions[Steps].prediction.Humidity < 1000 * Humidity_danger_low
    /\ api_resp.body.predictions[Steps].alerts = <<LblHumVeryDry>>

\* the sum of dimension j over steps 6h .. 6h+5 (counted from 0) of bucket h
\* (counted from 0)
BucketSum(p, h, j) ==
    p[6*h + 1][j] + p[6*h + 2][j] + p[6*h + 3][j] + p[6*h + 4][j] + p[6*h + 5][j] + p[6*h + 6][j]

\* the five averages (in hundredths) of a bucket of the answer
Averages(b) == <<b.avg_NH3, b.avg_CH4, b.avg_CO, b.avg_Temp, b.avg_Humidity>>

\* C14 as stated: 6 buckets in order, bucket h holding the mean of steps
\* [6h, 6h+6) in each dimension.
C14_BucketsAreExactMeans ==
    (api_pc = "responded" /\ IsSummary(api_resp)) =>
        /\ Len(api_resp.body.forecast) = 6
        /\ \A h \in 0..5 :
            /\ api_resp.body.forecast[h + 1].hour = h + 1
            /\ \A j \in 1..5 :
                 6 * Averages(api_resp.body.forecast[h + 1])[j]
                     = 100 * BucketSum(api_predictions, h, j)

\* C14: a summary of a 36-step forecast has exactly 6 buckets in order, and
\* bucket h (0..5) holds, in each dimension, the mean of exactly the steps
\* [6h, 6h+6) rounded to the nearest hundredth.
C14_BucketsAreRoundedMeans ==
    (api_pc = "responded" /\ IsSummary(api_resp)) =>
        /\ Len(api_resp.body.forecast) = 6
        /\ \A h \in 0..5 :
            /\ api_resp.body.forecast[h + 1].hour = h + 1
            /\ \A j \in 1..5 :
                 LET d == 6 * Averages(api_resp.body.forecast[h + 1])[j]
                              - 100 * BucketSum(api_predictions, h, j)
                 IN  -3 <= d /\ d <= 3

\* A forecast that changes rows one step into the second bucket: the first
\* bucket's NH3 mean is 26, the second's (26 + 5 * 10) / 6 is rounded to 12.67
C14_Witness ==
    /\ api_pc = "responded" /\ IsSummary(api_resp)
    /\ api_resp.body.forecast[1].avg_NH3 = 2600
    /\ api_resp.body.forecast[2].avg_NH3 = 1267
    /\ api_resp.body.forecast[3].avg_NH3 = 1000

\* C17: on each of the three routes the forecast the handler classifies and
\* aggregates is the model's output with every negative value replaced by 0:
\* no value is negative, the per-step values and the bucket averages of the
\* answer are not negative, and a step whose predicted humidity was negative
\* is reported and classified as humidity 0 (very dry).
C17_NegativesClamped ==
    (api_pc = "responded" /\ api_predictions # None) =>
        /\ api_route \in {"/predict", "/export_reticulum", "/alert"}
        /\ \A i \in 1..Steps : \A j \in 1..5 :
              api_predictions[i][j] =
                  (IF api_oracle.out[i][j] < 0 THEN 0 ELSE api_oracle.out[i][j])
        /\ IsStepList(api_resp) =>
              \A i \in 1..Steps :
                 LET e == api_resp.body.predictions[i] IN
                 /\ e.prediction.NH3 >= 0 /\ e.prediction.CH4 >= 0 /\ e.prediction.CO >= 0
                 /\ e.prediction.Temp >= 0 /\ e.prediction.Humidity >= 0
                 /\ api_oracle.out[i][5] < 0 =>
                       (e.prediction.Humidity = 0 /\ CountIn(e.alerts, {LblHumVeryDry}) = 1)
        /\ IsSummary(api_resp) =>
              \A h \in 1..Hours : \A j \in 1..5 :
                  Averages(api_resp.body.forecast[h])[j] >= 0

\* /predict answered a forecast whose first step had negative NH3, CO and
\* humidity
C17_Witness ==
    /\ api_pc = "responded" /\ api_route = "/predict" /\ IsStepList(api_resp)
    /\ api_oracle.out[1] = NegativeRow
    /\ api_predictions[1] = <<0, 500, 0, 22, 0>>
    /\ api_resp.body.predictions[1].prediction.Humidity = 0
    /\ api_resp.body.predictions[1].alerts = <<LblHumVeryDry>>

\* some step of the handler's forecast is above the NH3, CH4 or CO danger
\* threshold
SirenStep(predictions) ==
    \E i \in 1..Steps :
        \/ predictions[i][1] > NH3_danger
        \/ predictions[i][2] > CH4_danger
        \/ predictions[i][3] > CO_danger

\* C20: /alert answers "Critical Alerts" with a siren label in its list
\* whenever some clamped step is above the NH3, CH4 or CO danger threshold,
\* and answers "All safe" only when no step is.
C20_SirenSurvivesTruncation ==
    (api_pc = "responded" /\ api_route = "/alert" /\ api_resp.status_code = 200
        /\ "status" \in DOMAIN api_resp.body) =>
        /\ SirenStep(api_predictions) =>
              /\ api_resp.body.status = StatusCritical
              /\ \E k \in 1..Len(api_resp.body.alerts) : HasSiren(api_resp.body.alerts[k])
        /\ api_resp.body.status = StatusAllSafe => ~SirenStep(api_predictions)

\* C15: when a cycle ends, completed or aborted, the frame reader is back in
\* the not-started state with an empty buffer and a zero counter; lines that
\* made a frame make the same frame when they are fed again, and any two
\* frames emitted from the same lines are equal.
C15_ReaderResetAndIdempotent ==
    /\ [][(InCycle /\ pc' = "read") =>
            (data' = << >> /\ ~json_started' /\ brace_count' = 0)]_vars
    /\ [][\A i \in 1..Len(emitted) :
            (pc = "read" /\ reads' # reads /\ received' = emitted[i].lines) =>
                /\ pc' = "parse"
                /\ data' = emitted[i].frame
                /\ emitted' = Append(emitted, emitted[i])]_vars
    /\ [](\A i, j \in 1..Len(emitted) :
            emitted[i].lines = emitted[j].lines => emitted[i].frame = emitted[j].frame)

\* The same two-line frame was fed twice, before and after the cycle the
\* first one started, and two equal frames were emitted
C15_Witness ==
    /\ Len(emitted) = 2
    /\ emitted[1] = [lines |-> <<LineHead, LineTail>>, frame |-> LineHead \o LineTail]
    /\ emitted[2] = emitted[1]
    /\ Len(all_readings) = 1
    /\ pc = "parse"

\* C16: when opening the serial device fails, no line is ever read and the
\* process ends with a non-zero exit status.
C16_OpenFailureExitsNonZero ==
    (pc = "done" /\ ser = "unbound" /\ exc = "SerialException") =>
        (reads = 0 /\ exit_code # 0)

\* the newest line of the history
LastLine(rcv) == rcv[Len(rcv)]

\* C18: a line that takes the counter below 0 is appended like any other:
\* nothing is emitted, no exception leaves the loop and nothing is reset.
\* While the counter is below 0 no cycle runs, and the next line either
\* starts a new frame (it starts with '{') or is appended and counted, a
\* frame being emitted exactly when the counter comes back to 0.
C18_NegativeCounter ==
    /\ [][(brace_count' < 0 /\ brace_count' # brace_count) =>
            /\ pc = "read" /\ pc' = "read"
            /\ json_started /\ json_started'
            /\ exc' = "none"
            /\ emitted' = emitted
            /\ data' = data \o LastLine(received')
            /\ all_readings' = all_readings]_vars
    /\ [][(brace_count < 0 /\ Len(received') > Len(received)) =>
            IF StartsWith(LastLine(received'), "{")
            THEN /\ brace_count' = 1
                 /\ data' = LastLine(received')
                 /\ pc' = "read"
            ELSE /\ data' = data \o LastLine(received')
                 /\ brace_count' = brace_count + Count(LastLine(received'), "{")
                                               - Count(LastLine(received'), "}")
                 /\ pc' = "parse" <=> brace_count' = 0
                 /\ pc' = "read" <=> brace_count' # 0]_vars
    /\ [](brace_count < 0 => (~InCycle /\ json_started))

\* "{", then "}}" took the counter to -1, then a line with one more '{'
\* brought it back to 0 and the three lines were emitted as a frame
C18_Witness ==
    /\ pc = "parse"
    /\ received = <<LineOpen, LineClose2, LineNest>>
    /\ data = LineOpen \o LineClose2 \o LineNest
    /\ brace_count = 0

\* C19: a line that starts with '{' never emits a frame: it leaves the
\* reader started with the counter at 1 and the buffer equal to that line
\* alone, whatever was accumulated before and whatever braces the line holds.
C19_StartLineRestarts ==
    [][(pc = "read" /\ Len(received') > Len(received)
            /\ StartsWith(LastLine(received'), "{")) =>
          /\ pc' = "read"
          /\ json_started'
          /\ brace_count' = 1
          /\ data' = LastLine(received')
          /\ emitted' = emitted]_vars

\* A brace-balanced document on one line arrived while a frame was partly
\* accumulated: the partial frame is gone and nothing was emitted
C19_Witness ==
    /\ pc = "read"
    /\ received = <<LineHead, LineSingle>>
    /\ data = LineSingle
    /\ brace_count = 1
    /\ Count(LineSingle, "{") = Count(LineSingle, "}")
    /\ emitted = << >>
=============================================================================
